---------------------------- MODULE Spec2Model ----------------------------
(***************************************************************************)
(* Conway's Game of Life engine of src/src/cell.c: the body of cells, the  *)
(* three seeding modes, the generation step and the pattern export.        *)
(*                                                                         *)
(* A body is modelled at the level of its storage: `cells` is the array of *)
(* cell pointers, indexed by the linear offset x * cols + y the code uses. *)
(* The function body.cells has in its domain exactly the slots of the      *)
(* rows*cols array that hold a cell; its value is that cell's `alive`.     *)
(* An access to any other offset is an access outside the array (or to a   *)
(* pointer that was never set): the value read is arbitrary and the value  *)
(* written lands outside the body.                                         *)
(***************************************************************************)
EXTENDS Integers, Sequences, FiniteSets, TLC

\* Largest number of rows and of columns of a body in the program run (Spec).
MaxDim == 4
\* Largest number of rows and of columns of a body in the generation runs (SpecGen).
GenDim == 3
\* Number of generations computed in one run.
MaxGen == 2
\* Number of cells in which a body of the generation runs differs from the
\* all-dead or from the all-alive body.
MaxFlips == 4
\* Number of mouse clicks taken in one drawing session.
MaxToggles == 2
\* Number of data lines of a pattern file chosen by the user.
MaxLines == 2
\* Largest absolute offset on a data line of a pattern file chosen by the user.
MaxOff == 1
\* Number of runs of the program: a later run may load what an earlier one exported.
MaxRuns == 2

VARIABLES
    rows,        \* cell_meta.rows
    cols,        \* cell_meta.cols
    mode,        \* the seeding mode: "r", "p" or "d"
    alive_prob,  \* cell_meta.alive_prob
    pattern,     \* the lines of the pattern file the user chose (header included)
    body,        \* the body holding the current generation
    body_new,    \* the other body of the double buffer
    pop,         \* the population count threaded through the operations
    pc,          \* where the host is: boot, drawing, running, quit
    gen,         \* generations computed so far
    toggles,     \* clicks taken in the drawing session
    ub,          \* TRUE once an access outside a cells array has happened
    exported,    \* the lines of the last export file, <<>> when none
    origin,      \* the body the last export file was written from
    run          \* the number of this run of the program

vars == <<rows, cols, mode, alive_prob, pattern, body, body_new, pop, pc, gen,
          toggles, ub, exported, origin, run>>

---------------------------------------------------------------------------
(* Storage *)

\* The linear offset of logical position (x, y): cells[x * cols + y].
Index(c, x, y) == x * c + y

\* The k-th position (x, y) of the loop nest over a body of r rows: x outermost
\* over the columns, y innermost over the rows.
Position(r, k) == <<(k - 1) \div r, (k - 1) % r>>

\* The offsets the loop nest touches, in order.
Offsets(r, c) == [k \in 1..(r * c) |-> Index(c, Position(r, k)[1], Position(r, k)[2])]

\* The slots of the array malloc(rows * cols * sizeof(*cells)).
Slots(r, c) == 0..(r * c - 1)

\* cell_init: a fresh cell is dead.
cell_init == 0

\* body_init: a fresh cell is stored at offset x * cols + y for every (x, y).
\* A store beyond the array leaves no cell in the body.
body_init(r, c) ==
    [rows |-> r, cols |-> c,
     cells |-> [i \in {Offsets(r, c)[k] : k \in 1..(r * c)} \cap Slots(r, c) |-> cell_init]]

\* Whether body_init stores outside the array it allocated.
InitOverflows(r, c) == \E k \in 1..(r * c) : Offsets(r, c)[k] \notin Slots(r, c)

\* The offsets a body's loops touch that hold no cell of the body.
Wild(b) == {Offsets(b.rows, b.cols)[k] : k \in 1..(b.rows * b.cols)} \ DOMAIN b.cells

\* The arbitrary values read outside a body, one per offset: all 0 or all 1.
Junk(b) == {[i \in Wild(b) |-> v] : v \in {0, 1}}

\* body->cells[i]->alive, read.
ReadAlive(b, i, junk) == IF i \in DOMAIN b.cells THEN b.cells[i] ELSE junk[i]

\* body->cells[i]->alive = v.
WriteAlive(b, i, v) == IF i \in DOMAIN b.cells THEN [b EXCEPT !.cells[i] = v] ELSE b

\* The number of cells of the body that are alive.
AliveCells(b) == Cardinality({i \in DOMAIN b.cells : b.cells[i] = 1})

\* The logical positions whose cell is alive.
AliveAt(b) ==
    {p \in (0..(b.cols - 1)) \X (0..(b.rows - 1)) :
        Index(b.cols, p[1], p[2]) \in DOMAIN b.cells /\ b.cells[Index(b.cols, p[1], p[2])] = 1}

---------------------------------------------------------------------------
(* compute_generation *)

\* The bounds test of the inner loops, on position (x, y).
Inside(b, x, y) == ~(x < 0 \/ x > b.cols - 1 \/ y < 0 \/ y > b.rows - 1)

\* One pass of the inner loops' body: what position (x, y) adds to neighbors.
Neighbor(b, x, y, junk) ==
    IF Inside(b, x, y) THEN ReadAlive(b, Index(b.cols, x, y), junk) ELSE 0

\* neighbors started at 0 whatever the cell is: a live cell counts itself.
Neighbors_CountsSelf(b, x, y, junk) ==
    Neighbor(b, x - 1, y - 1, junk) + Neighbor(b, x - 1, y, junk) + Neighbor(b, x - 1, y + 1, junk)
    + Neighbor(b, x, y - 1, junk) + Neighbor(b, x, y, junk) + Neighbor(b, x, y + 1, junk)
    + Neighbor(b, x + 1, y - 1, junk) + Neighbor(b, x + 1, y, junk) + Neighbor(b, x + 1, y + 1, junk)

\* neighbors: starts at -1 for a live cell, which the loops then count once; the
\* loops run a from -1 to 1 and, inside, b from -1 to 1.
Neighbors(b, x, y, junk) ==
    (IF ReadAlive(b, Index(b.cols, x, y), junk) = 1 THEN -1 ELSE 0)
    + Neighbor(b, x - 1, y - 1, junk) + Neighbor(b, x - 1, y, junk) + Neighbor(b, x - 1, y + 1, junk)
    + Neighbor(b, x, y - 1, junk) + Neighbor(b, x, y, junk) + Neighbor(b, x, y + 1, junk)
    + Neighbor(b, x + 1, y - 1, junk) + Neighbor(b, x + 1, y, junk) + Neighbor(b, x + 1, y + 1, junk)

\* The three branches of the transition rule.
NewAlive(old, n) ==
    IF old = 1 /\ (n < 2 \/ n > 3) THEN 0
    ELSE IF old = 0 /\ n = 3 THEN 1
    ELSE old

\* The two outer loops, from position (x, y) on: x over the columns and, inside,
\* y over the rows.
RECURSIVE GenLoop(_, _, _, _, _, _)
GenLoop(bnew, bold, junk, x, y, p) ==
    IF x > bold.cols - 1 THEN [body |-> bnew, pop |-> p]
    ELSE IF y > bold.rows - 1 THEN GenLoop(bnew, bold, junk, x + 1, 0, p)
    ELSE LET i == Index(bold.cols, x, y)
             w == WriteAlive(bnew, i, NewAlive(ReadAlive(bold, i, junk), Neighbors(bold, x, y, junk)))
         IN GenLoop(w, bold, junk, x, y + 1, p + ReadAlive(w, i, junk))

\* compute_generation(body_new, body_old, &pop): the new body and *pop.
compute_generation(bnew, bold, junk) == GenLoop(bnew, bold, junk, 0, 0, 0)

\* One frame of the host's loop: the next generation is computed into the other
\* body and the two bodies change roles.
Generation ==
    /\ pc = "running"
    /\ gen < MaxGen
    /\ \E junk \in Junk(body) :
         \E r \in {compute_generation(body_new, body, junk)} :
           /\ body' = r.body
           /\ pop' = r.pop
    /\ ub' = (ub \/ Wild(body) # {})
    /\ body_new' = body
    /\ gen' = gen + 1
    /\ UNCHANGED <<rows, cols, mode, alive_prob, pattern, pc, toggles, exported, origin, run>>

---------------------------------------------------------------------------
(* random_mode *)

\* The values of rand() % 100 + 1 the draws are taken from.
RandDraws == {1, 50, 51, 100}

\* (size_t)(n * 0.25) and (size_t)(n * 0.75): the products are exact, the
\* conversion truncates.
Quarter(n) == n \div 4
ThreeQuarters(n) == (3 * n) \div 4

\* The positions of the two loops of random_mode, in order.
Region(b) ==
    LET x0 == Quarter(b.cols)
        y0 == Quarter(b.rows)
        h == ThreeQuarters(b.rows) - y0
        w == ThreeQuarters(b.cols) - x0
    IN [k \in 1..(w * h) |-> <<x0 + ((k - 1) \div h), y0 + ((k - 1) % h)>>]

RECURSIVE RandomLoop(_, _, _, _, _, _)
RandomLoop(b, prob, draws, junk, k, p) ==
    IF k > Len(Region(b)) THEN [body |-> b, pop |-> p]
    ELSE LET i == Index(b.cols, Region(b)[k][1], Region(b)[k][2])
             w == WriteAlive(b, i, IF draws[k] <= prob THEN 1 ELSE 0)
         IN RandomLoop(w, prob, draws, junk, k + 1, p + ReadAlive(w, i, junk))

\* random_mode(body, &pop) under the given draws: the body and *pop.
random_mode(b, p, prob, draws, junk) == RandomLoop(b, prob, draws, junk, 1, p)

---------------------------------------------------------------------------
(* Pattern files: text, one sequence of characters per line *)

Digits == <<"0", "1", "2", "3", "4", "5", "6", "7", "8", "9">>
IsDigit(ch) == \E d \in 1..10 : Digits[d] = ch
DigitVal(ch) == (CHOOSE d \in 1..10 : Digits[d] = ch) - 1

\* printf's %d.
RECURSIVE FormatNat(_)
FormatNat(n) == IF n < 10 THEN <<Digits[n + 1]>>
                ELSE FormatNat(n \div 10) \o <<Digits[(n % 10) + 1]>>
FormatInt(n) == IF n < 0 THEN <<"-">> \o FormatNat(-n) ELSE FormatNat(n)

\* The line "%d,%d\n".
FormatLine(x, y) == FormatInt(x) \o <<",">> \o FormatInt(y) \o <<"\n">>

\* The header line "x,y\n".
Header == <<"x", ",", "y", "\n">>

\* atoi: an optional sign, then digits up to the first other character.
RECURSIVE AtoiDigits(_, _, _)
AtoiDigits(s, k, acc) ==
    IF k > Len(s) \/ ~IsDigit(s[k]) THEN acc
    ELSE AtoiDigits(s, k + 1, acc * 10 + DigitVal(s[k]))
atoi(s) == IF Len(s) > 0 /\ s[1] = "-" THEN -AtoiDigits(s, 2, 0)
           ELSE IF Len(s) > 0 /\ s[1] = "+" THEN AtoiDigits(s, 2, 0)
           ELSE AtoiDigits(s, 1, 0)

\* strtok(point, ",") and strtok(NULL, ","): the text from position k, past the
\* leading commas, up to the next comma, and the position after it.
RECURSIVE SkipCommas(_, _)
SkipCommas(s, k) == IF k <= Len(s) /\ s[k] = "," THEN SkipCommas(s, k + 1) ELSE k
RECURSIVE TokenEnd(_, _)
TokenEnd(s, k) == IF k <= Len(s) /\ s[k] # "," THEN TokenEnd(s, k + 1) ELSE k
strtok(s, k) ==
    LET from == SkipCommas(s, k)
        to == TokenEnd(s, from)
    IN [token |-> SubSeq(s, from, to - 1), next |-> to + 1]

\* point[strlen(point) - 1] = '\0'.
Chop(s) == SubSeq(s, 1, Len(s) - 1)

\* The size_t that (size_t)atoi(...) + n * 0.5 leaves in x or y.  A value d >= 0
\* gives d + n / 2, truncated.  A negative d converts to 2^64 + d, which as a
\* double is 2^64, and so is the sum; 2^64 is beyond size_t and its conversion is
\* undefined: the SSE sequence leaves 0, a saturating conversion leaves
\* SIZE_MAX, written -1 here (offsets are computed modulo 2^64, where it is -1).
Centered(d, n) == IF d >= 0 THEN {d + n \div 2} ELSE {0, -1}

\* Whether a line's conversion is undefined.
ConversionUndefined(d) == d < 0

\* The two numbers of a data line.
ParseLine(line) ==
    LET point == Chop(line)
        first == strtok(point, 1)
        second == strtok(point, first.next)
    IN <<atoi(first.token), atoi(second.token)>>

\* The loop of pattern_mode from line k on: every result the conversions allow.
RECURSIVE PatternLoop(_, _, _, _, _)
PatternLoop(b, lines, k, p, u) ==
    IF k > Len(lines) THEN {[body |-> b, pop |-> p, ub |-> u]}
    ELSE LET d == ParseLine(lines[k]) IN
         UNION {PatternLoop(WriteAlive(b, Index(b.cols, x, y), 1), lines, k + 1, p + 1,
                            u \/ ConversionUndefined(d[1]) \/ ConversionUndefined(d[2])
                              \/ Index(b.cols, x, y) \notin DOMAIN b.cells) :
                   <<x, y>> \in Centered(d[1], b.cols) \X Centered(d[2], b.rows)}

\* pattern_mode(body, &pop) on an opened file: the header is skipped.
pattern_mode(b, p, file) == PatternLoop(b, file, 2, p, FALSE)

RECURSIVE ExportLoop(_, _, _)
ExportLoop(b, junk, k) ==
    IF k > b.rows * b.cols THEN <<>>
    ELSE LET x == Position(b.rows, k)[1]
             y == Position(b.rows, k)[2]
         IN (IF ReadAlive(b, Index(b.cols, x, y), junk) = 1 THEN <<FormatLine(x, y)>> ELSE <<>>)
            \o ExportLoop(b, junk, k + 1)

\* export_body: the lines of the file written.
export_body(b, junk) == <<Header>> \o ExportLoop(b, junk, 1)

---------------------------------------------------------------------------
(* drawing_mode *)

\* One left click on position (x, y) of the window: the cell is flipped and the
\* population follows the value it now has.  old is the value read.
Toggle(b, p, x, y, old) ==
    LET i == Index(b.cols, x, y)
        now == IF old = 1 THEN 0 ELSE 1
    IN [body |-> WriteAlive(b, i, now), pop |-> p + 2 * now - 1]

\* The values the read of the clicked cell can give.
Reads(b, x, y) ==
    IF Index(b.cols, x, y) \in DOMAIN b.cells THEN {b.cells[Index(b.cols, x, y)]} ELSE {0, 1}

---------------------------------------------------------------------------
(* The program run *)

\* No body allocated yet.
NoBody == [rows |-> 0, cols |-> 0, cells |-> [i \in {} |-> 0]]

\* The alive probabilities the configuration is drawn from, in percent.
Probs == {0, 50, 100}

\* The data lines a user's pattern file is made of.
DataLines == {FormatLine(dx, dy) : dx \in (-MaxOff)..MaxOff, dy \in (-MaxOff)..MaxOff}

\* The pattern files of the user: a header and up to MaxLines data lines.
PatternFiles ==
    {<<Header>> \o f : f \in UNION {[1..n -> DataLines] : n \in 0..MaxLines}}

\* mode, alive_prob and the pattern file chosen, as the configuration gives them.
Configs ==
    {<<"r", p, <<>>>> : p \in Probs}
    \cup {<<"p", 0, f>> : f \in PatternFiles}
    \cup {<<"d", 0, <<>>>>}

Init ==
    /\ rows \in 1..MaxDim
    /\ cols \in 1..MaxDim
    /\ \E cfg \in Configs : mode = cfg[1] /\ alive_prob = cfg[2] /\ pattern = cfg[3]
    /\ body = NoBody
    /\ body_new = NoBody
    /\ pop = 0
    /\ pc = "boot"
    /\ gen = 0
    /\ toggles = 0
    /\ ub = FALSE
    /\ exported = <<>>
    /\ origin = NoBody
    /\ run = 1

\* The host creates the two bodies of the double buffer.
Boot ==
    /\ pc = "boot"
    /\ body' = body_init(rows, cols)
    /\ body_new' = body_init(rows, cols)
    /\ ub' = (ub \/ InitOverflows(rows, cols))
    /\ pc' = "seed"
    /\ UNCHANGED <<rows, cols, mode, alive_prob, pattern, pop, gen, toggles, exported, origin, run>>

\* inital_generation, case 'r'.
SeedRandom ==
    /\ pc = "seed" /\ mode = "r"
    /\ \E draws \in [1..Len(Region(body)) -> RandDraws], junk \in Junk(body) :
         \E r \in {random_mode(body, 0, alive_prob, draws, junk)} :
           /\ body' = r.body
           /\ pop' = r.pop
    /\ ub' = (ub \/ \E k \in 1..Len(Region(body)) :
                       Index(cols, Region(body)[k][1], Region(body)[k][2]) \notin DOMAIN body.cells)
    /\ pc' = "running"
    /\ UNCHANGED <<rows, cols, mode, alive_prob, pattern, body_new, gen, toggles, exported, origin, run>>

\* inital_generation, case 'p', the file opened.
SeedPattern ==
    /\ pc = "seed" /\ mode = "p"
    /\ \E r \in pattern_mode(body, 0, pattern) :
           /\ body' = r.body
           /\ pop' = r.pop
           /\ ub' = (ub \/ r.ub)
    /\ pc' = "running"
    /\ UNCHANGED <<rows, cols, mode, alive_prob, pattern, body_new, gen, toggles, exported, origin, run>>

\* inital_generation, case 'p', fopen failed: NULL is returned.
SeedPatternUnopened ==
    /\ pc = "seed" /\ mode = "p"
    /\ pop' = 0
    /\ pc' = "quit"
    /\ UNCHANGED <<rows, cols, mode, alive_prob, pattern, body, body_new, gen, toggles, ub, exported, origin, run>>

\* inital_generation, case 'd': drawing_mode starts capturing input.
SeedDrawing ==
    /\ pc = "seed" /\ mode = "d"
    /\ pop' = 0
    /\ pc' = "drawing"
    /\ UNCHANGED <<rows, cols, mode, alive_prob, pattern, body, body_new, gen, toggles, ub, exported, origin, run>>

inital_generation == SeedRandom \/ SeedPattern \/ SeedPatternUnopened \/ SeedDrawing

\* drawing_mode, SDL_MOUSEBUTTONDOWN with the left button on cell (x, y) of the window.
DrawClick ==
    /\ pc = "drawing"
    /\ toggles < MaxToggles
    /\ \E x \in 0..(cols - 1), y \in 0..(rows - 1) :
         /\ \E old \in Reads(body, x, y) :
              \E r \in {Toggle(body, pop, x, y, old)} :
                /\ body' = r.body
                /\ pop' = r.pop
         /\ ub' = (ub \/ Index(cols, x, y) \notin DOMAIN body.cells)
    /\ toggles' = toggles + 1
    /\ UNCHANGED <<rows, cols, mode, alive_prob, pattern, body_new, pc, gen, exported, origin, run>>

\* drawing_mode, SDLK_SPACE: capturing ends and the body is returned.
DrawSpace ==
    /\ pc = "drawing"
    /\ pc' = "running"
    /\ UNCHANGED <<rows, cols, mode, alive_prob, pattern, body, body_new, pop, gen, toggles, ub, exported, origin, run>>

\* drawing_mode, SDL_QUIT or SDLK_q: NULL is returned.
DrawQuit ==
    /\ pc = "drawing"
    /\ pc' = "quit"
    /\ UNCHANGED <<rows, cols, mode, alive_prob, pattern, body, body_new, pop, gen, toggles, ub, exported, origin, run>>

drawing_mode == DrawClick \/ DrawSpace \/ DrawQuit

\* The host exports the current body.
Export ==
    /\ pc = "running"
    /\ run < MaxRuns
    /\ \E junk \in Junk(body) : exported' = export_body(body, junk)
    /\ origin' = body
    /\ ub' = (ub \/ Wild(body) # {})
    /\ UNCHANGED <<rows, cols, mode, alive_prob, pattern, body, body_new, pop, pc, gen, toggles, run>>

\* The program is run again, on a grid of the same size, in pattern mode with
\* the exported file as the pattern chosen.
Reload ==
    /\ pc = "running"
    /\ exported # <<>>
    /\ run < MaxRuns
    /\ run' = run + 1
    /\ mode' = "p"
    /\ pattern' = exported
    /\ body' = NoBody
    /\ body_new' = NoBody
    /\ pop' = 0
    /\ pc' = "boot"
    /\ gen' = 0
    /\ toggles' = 0
    /\ ub' = FALSE
    /\ UNCHANGED <<rows, cols, alive_prob, exported, origin>>

Next == Boot \/ inital_generation \/ drawing_mode \/ Generation \/ Export \/ Reload

Spec == Init /\ [][Next]_vars

---------------------------------------------------------------------------
(* The generation runs: compute_generation on every body a drawing session *)
(* can leave.                                                              *)

\* The bodies a drawing session can leave on a fresh r x c body: those that
\* differ in at most MaxFlips cells from the all-dead or from the all-alive one
\* (every body of up to 2 * MaxFlips + 1 cells).
Bodies(r, c) ==
    {[rows |-> r, cols |-> c, cells |-> f] :
        f \in {g \in [DOMAIN body_init(r, c).cells -> {0, 1}] :
                  \/ Cardinality({i \in DOMAIN g : g[i] = 1}) <= MaxFlips
                  \/ Cardinality({i \in DOMAIN g : g[i] = 0}) <= MaxFlips}}

InitGen ==
    /\ rows \in 1..GenDim
    /\ cols \in 1..GenDim
    /\ mode = "d"
    /\ alive_prob = 0
    /\ pattern = <<>>
    /\ body \in Bodies(rows, cols)
    /\ body_new = body_init(rows, cols)
    /\ pop = AliveCells(body)
    /\ pc = "running"
    /\ gen = 0
    /\ toggles = 0
    /\ ub = InitOverflows(rows, cols)
    /\ exported = <<>>
    /\ origin = body_init(rows, cols)
    /\ run = 1

SpecGen == InitGen /\ [][Generation]_vars

---------------------------------------------------------------------------
(* Claims about compute_generation (SpecGen) *)

\* The empty assignment of arbitrary values: nothing is read outside the body.
NoJunk == [i \in {} |-> 0]

\* The arbitrary values all zero.
ZeroJunk(b) == [i \in Wild(b) |-> 0]

\* A generation has been computed: body is the new one, body_new the previous.
Stepped == pc = "running" /\ gen > 0

\* The live neighbours of (x, y) in b as the rule defines them: the alive cells
\* among the eight surrounding positions that lie inside the grid.
LiveAround(b, x, y) ==
    Cardinality({d \in {-1, 0, 1} \X {-1, 0, 1} :
        /\ d # <<0, 0>>
        /\ x + d[1] \in 0..(b.cols - 1)
        /\ y + d[2] \in 0..(b.rows - 1)
        /\ b.cells[Index(b.cols, x + d[1], y + d[2])] = 1})

AllAlive(b) == \A i \in DOMAIN b.cells : b.cells[i] = 1

\* C1: for every pair of distinct bodies of the same dimensions r x c, r # c
\* included, the population compute_generation returns is the number of alive
\* cells of the new body.  Stated on the runs in which no access left the
\* arrays.
C1_PopulationCountsNext == (Stepped /\ ~ub) => pop = AliveCells(body)

\* Companion of C1: the same with the alive cells counted by position.
PopulationCountsPositions == (Stepped /\ ~ub) => pop = Cardinality(AliveAt(body))

\* Companion of C1: the same on the bodies whose rows equal their cols.
SquarePopulation == (Stepped /\ rows = cols) => pop = AliveCells(body)

\* C2: on a square body, next(x, y) is alive exactly when n = 3, or n = 2 and
\* prev(x, y) is alive, n being the alive cells of prev among the surrounding
\* positions inside the grid; the code's count is that n, so a corner of an
\* all-alive body of size at least 3 x 3 counts 3, an edge cell 5, and no cell
\* counts itself.
C2_RuleB3S23 ==
    (Stepped /\ rows = cols) =>
        /\ \A x \in 0..(cols - 1), y \in 0..(rows - 1) :
             LET i == Index(cols, x, y)
                 n == LiveAround(body_new, x, y)
             IN /\ Neighbors(body_new, x, y, NoJunk) = n
                /\ (body.cells[i] = 1) <=> (n = 3 \/ (n = 2 /\ body_new.cells[i] = 1))
        /\ (AllAlive(body_new) /\ rows >= 3) =>
             \A x \in 0..(cols - 1), y \in 0..(rows - 1) :
                LET corner == x \in {0, cols - 1} /\ y \in {0, rows - 1}
                    edge == (x \in {0, cols - 1} \/ y \in {0, rows - 1}) /\ ~corner
                IN /\ corner => Neighbors(body_new, x, y, NoJunk) = 3
                   /\ edge => Neighbors(body_new, x, y, NoJunk) = 5
                   /\ (~corner /\ ~edge) => Neighbors(body_new, x, y, NoJunk) = 8

\* C2's case: a generation computed from an all-alive 3 x 3 body, whose corners
\* live on while its edge cells and its centre die.
C2_Witness ==
    /\ Stepped /\ rows = 3 /\ cols = 3
    /\ AllAlive(body_new)
    /\ AliveAt(body) = {<<0, 0>>, <<0, 2>>, <<2, 0>>, <<2, 2>>}

\* C3: compute_generation assigns every cell of next from prev alone, whatever
\* next held before, and leaves prev as it was.
C3_NextFromPrevAlone ==
    [][(pc = "running" /\ gen' = gen + 1) =>
          /\ body_new' = body
          /\ DOMAIN body'.cells = DOMAIN body_init(rows, cols).cells
          /\ body' = compute_generation(body_init(rows, cols), body, ZeroJunk(body)).body]_vars

\* Companion of C3: the same on the bodies body_init builds inside the array it
\* allocated (rows >= cols).
NextFromPrevWithinArray ==
    [][(pc = "running" /\ gen' = gen + 1 /\ ~InitOverflows(rows, cols)) =>
          /\ body_new' = body
          /\ body' = compute_generation(body_init(rows, cols), body, ZeroJunk(body)).body]_vars

---------------------------------------------------------------------------
(* Claims about seeding, drawing, export and body_init (Spec) *)

\* The body has just been seeded: no generation computed yet.
Seeded == pc = "running" /\ gen = 0

\* The positions the data lines of a pattern file name: (dx + cols/2, dy + rows/2)
\* with integer halves.
Targets(file) ==
    {<<ParseLine(file[k])[1] + cols \div 2, ParseLine(file[k])[2] + rows \div 2>> :
        k \in 2..Len(file)}

TargetsInRange(file) == Targets(file) \subseteq (0..(cols - 1)) \X (0..(rows - 1))

\* C4: after pattern seeding of a fresh body from a list whose targets are in
\* range, a repeated coordinate included, the population returned is the number
\* of alive cells.  Stated on square bodies and on the runs in which no
\* conversion and no access was undefined.
C4_PatternPopulation ==
    (Seeded /\ mode = "p" /\ rows = cols /\ ~ub /\ TargetsInRange(pattern))
        => pop = AliveCells(body)

\* Companion of C4: the same for the files that name no position twice.
PatternPopulationDistinctLines ==
    (Seeded /\ mode = "p" /\ rows = cols /\ ~ub /\ TargetsInRange(pattern)
       /\ Cardinality(Targets(pattern)) = Len(pattern) - 1)
        => pop = AliveCells(body)

\* C5: export then import reproduces the grid: pattern seeding of a fresh body
\* of the same size from the exported file leaves alive exactly the positions
\* that were alive in the exported body.  Stated on square bodies and on the
\* runs in which no access was undefined.
C5_ExportImportRoundTrip ==
    (Seeded /\ run > 1 /\ rows = cols /\ ~ub) => AliveAt(body) = AliveAt(origin)

\* C6: for data lines "<dx>,<dy>", negative values included, whose targets lie
\* inside the grid, pattern seeding sets alive exactly the cells at
\* (dx + cols/2, dy + rows/2).  Stated on the 4 x 4 body.
C6_PatternTargets ==
    (Seeded /\ mode = "p" /\ run = 1 /\ rows = 4 /\ cols = 4 /\ TargetsInRange(pattern))
        => AliveAt(body) = Targets(pattern)

\* Companion of C6: the same, on every square body, for the lines whose two
\* numbers are not negative.
PatternTargetsNonNegative ==
    (Seeded /\ mode = "p" /\ run = 1 /\ rows = cols /\ TargetsInRange(pattern)
       /\ \A k \in 2..Len(pattern) : ParseLine(pattern[k])[1] >= 0 /\ ParseLine(pattern[k])[2] >= 0)
        => AliveAt(body) = Targets(pattern)

\* The sub-region of the claim: x in [floor(0.25 c), floor(0.75 c)) and y in
\* [floor(0.25 r), floor(0.75 r)).
CentralRegion ==
    ((cols \div 4)..((3 * cols) \div 4 - 1)) \X ((rows \div 4)..((3 * rows) \div 4 - 1))

\* C7: random seeding of a fresh r x c body with probability 0 returns 0 and
\* leaves every cell dead; with probability 100 it returns the area of the
\* central sub-region, whose cells are alive, every cell outside it being dead.
\* Stated on the runs in which no access was undefined.
C7_RandomExtremes ==
    (Seeded /\ mode = "r" /\ ~ub) =>
        /\ alive_prob = 0 => (pop = 0 /\ AliveAt(body) = {})
        /\ alive_prob = 100 =>
             /\ pop = ((3 * cols) \div 4 - cols \div 4) * ((3 * rows) \div 4 - rows \div 4)
             /\ AliveAt(body) = CentralRegion

\* Companion of C7: the same on the bodies whose rows equal their cols.
RandomExtremesSquare ==
    (Seeded /\ mode = "r" /\ rows = cols) =>
        /\ alive_prob = 0 => (pop = 0 /\ AliveAt(body) = {})
        /\ alive_prob = 100 =>
             /\ pop = ((3 * cols) \div 4 - cols \div 4) * ((3 * rows) \div 4 - rows \div 4)
             /\ AliveAt(body) = CentralRegion

\* C8: in a drawing session, two clicks on the same in-range cell, with no other
\* click between them, restore that cell, the population and every other cell.
C8_DoubleToggleRestores ==
    pc = "drawing" =>
        \A x \in 0..(cols - 1), y \in 0..(rows - 1) :
            \A first \in Reads(body, x, y) :
                \A second \in Reads(Toggle(body, pop, x, y, first).body, x, y) :
                    Toggle(Toggle(body, pop, x, y, first).body,
                           Toggle(body, pop, x, y, first).pop, x, y, second)
                      = [body |-> body, pop |-> pop]

\* Companion of C8: the same on the bodies body_init builds inside the array it
\* allocated (rows >= cols).
DoubleToggleWithinArray ==
    (pc = "drawing" /\ ~InitOverflows(rows, cols)) =>
        \A x \in 0..(cols - 1), y \in 0..(rows - 1) :
            \A first \in Reads(body, x, y) :
                \A second \in Reads(Toggle(body, pop, x, y, first).body, x, y) :
                    Toggle(Toggle(body, pop, x, y, first).body,
                           Toggle(body, pop, x, y, first).pop, x, y, second)
                      = [body |-> body, pop |-> pop]

\* The drawing session, and the state it returns when it is finished.
InSession == pc = "drawing" \/ (Seeded /\ mode = "d")

\* C9: in a drawing session started from an all-dead body with population 0,
\* after any clicks on in-range positions the population is never negative,
\* never above rows * cols, and is the number of alive cells of the grid, in
\* every intermediate state and in the state the session returns.  Stated on
\* the runs in which no access was undefined.
C9_SessionPopulation ==
    (InSession /\ ~ub) =>
        /\ pop >= 0
        /\ pop <= rows * cols
        /\ pop = Cardinality(AliveAt(body))

\* Companion of C9: the population compared to the cells stored, on every run.
SessionPopulationStored ==
    InSession => (pop >= 0 /\ pop <= rows * cols /\ pop = AliveCells(body))

\* Companion of C9: the same on the bodies whose rows equal their cols.
SessionPopulationSquare ==
    (InSession /\ rows = cols) =>
        /\ pop >= 0
        /\ pop <= rows * cols
        /\ pop = Cardinality(AliveAt(body))
        /\ pop = AliveCells(body)

\* C10: for all positive rows and cols, body_init leaves one fresh dead cell at
\* each of the offsets 0 .. rows * cols - 1, stores at no offset outside that
\* range, and gives distinct positions distinct offsets.
C10_BodyInitFillsArray ==
    pc = "seed" =>
        /\ DOMAIN body.cells = Slots(rows, cols)
        /\ \A i \in DOMAIN body.cells : body.cells[i] = 0
        /\ ~InitOverflows(rows, cols)
        /\ \A j, k \in 1..(rows * cols) :
              j # k => Offsets(rows, cols)[j] # Offsets(rows, cols)[k]

\* Companion of C10: the same on the bodies whose rows equal their cols.
BodyInitSquare ==
    (pc = "seed" /\ rows = cols) =>
        /\ DOMAIN body.cells = Slots(rows, cols)
        /\ \A i \in DOMAIN body.cells : body.cells[i] = 0
        /\ ~InitOverflows(rows, cols)
        /\ \A j, k \in 1..(rows * cols) :
              j # k => Offsets(rows, cols)[j] # Offsets(rows, cols)[k]

=============================================================================
